---- MODULE Spec2Model ----
(***************************************************************************)
(* Model of the dust / disintegrate effect of expo-disintegrate-effect.    *)
(*                                                                         *)
(* Three programs of the repository are modelled, one per value of `mode`: *)
(*   "gl"    the DustSnapGL component (src/components/cylinder.tsx) under   *)
(*           an arbitrary parent that changes its props,                   *)
(*   "app"   the DustSnapApp screen (src/unnamed/part_000) with the        *)
(*           DustSnapGL component it mounts,                               *)
(*   "blow"  the BlowAwayImage component (src/unnamed/part_000) under an   *)
(*           arbitrary parent.                                             *)
(*                                                                         *)
(* Time is discrete: every event happens at an instant that is a multiple  *)
(* of Quantum milliseconds, and Tick moves to the next instant.  A React   *)
(* event (a handler, a timer, a resolved promise) is one action: the state *)
(* updates, the re-render and the effects the re-render runs.              *)
(***************************************************************************)
EXTENDS Integers, Sequences, FiniteSets, TLC

VARIABLES mode, props, comp, app, field

vars == <<mode, props, comp, app, field>>

(***************************************************************************)
(* Bounds of the model.                                                    *)
(***************************************************************************)
Quantum == 100
MaxUri == 2
MaxSeed == 2
MaxPending == 2
MaxMeasures == 1

(***************************************************************************)
(* Program constants.                                                      *)
(***************************************************************************)
DURATION_MS == 1000
COMPLETE_MARGIN_MS == 100
BLOW_DURATION_MS == 2000
BLOW_END_VALUE == 3000
SNAP_DELAY_MS == 16
FADE_MS == 150

Min(a, b) == IF a < b THEN a ELSE b

Uris == 1..MaxUri
Seeds == 1..MaxSeed
NoImage == <<0, 0>>

ZeroLayout == [x |-> 0, y |-> 0, width |-> 0, height |-> 0]
MeasuredLayouts ==
  { [x |-> 8, y |-> 16, width |-> 6, height |-> 6],
    [x |-> 8, y |-> 16, width |-> 9, height |-> 6],
    ZeroLayout }
Offsets == {<<0, 0>>, <<8, 16>>}

\* Skia.RuntimeEffect.Make of the fixed shader source: the effect compiles.
shaderEffect == TRUE

(***************************************************************************)
(* The JS timer queue of the component: each pending setTimeout is a       *)
(* record; `current` marks the one the component can still clear           *)
(* (timeoutRef.current in DustSnapGL, the effect closure's `timeout` in    *)
(* BlowAwayImage).                                                         *)
(***************************************************************************)
ClearTimeout(ts) == {t \in ts : ~t.current}

SetTimeout(ts, delay) ==
  {[t EXCEPT !.current = FALSE] : t \in ts}
    \cup {[elapsed |-> 0, delay |-> delay, current |-> TRUE]}

AdvanceTimers(ts) ==
  {[t EXCEPT !.elapsed = Min(@ + Quantum, t.delay + Quantum)] : t \in ts}

(***************************************************************************)
(* Component state (the useState / useSharedValue / useRef cells of        *)
(* DustSnapGL and of BlowAwayImage), with the bookkeeping the properties   *)
(* read: gen flips at every setTimeout of a completion timer, cbCount      *)
(* counts the completion callbacks since that setTimeout (up to 2),        *)
(* rampStarted says whether withTiming was started since it and seedRuns   *)
(* counts the runs armed since the seed was last drawn (up to 2).          *)
(***************************************************************************)
Unmounted ==
  [ mounted |-> FALSE, image |-> NoImage, loading |-> 0,
    isAnimating |-> FALSE, animationTime |-> 0,
    rampActive |-> FALSE, rampElapsed |-> 0,
    seedValue |-> 1, timers |-> {}, imageOffset |-> <<0, 0>>, measuring |-> 0,
    gen |-> 0, cbCount |-> 0, rampStarted |-> FALSE, seedRuns |-> 0 ]

\* What a component instance loses when it unmounts; the bookkeeping stays.
ResetState(c) ==
  [ Unmounted EXCEPT !.timers = c.timers, !.gen = c.gen, !.cbCount = c.cbCount,
                     !.rampStarted = c.rampStarted ]

\* animationTime.value = 0; animationTime.value = withTiming(end, {duration})
StartRamp(c) ==
  [c EXCEPT !.isAnimating = TRUE, !.animationTime = 0,
            !.rampActive = TRUE, !.rampElapsed = 0, !.rampStarted = TRUE]

ArmCompletion(c, delay) ==
  [c EXCEPT !.timers = SetTimeout(@, delay), !.gen = 1 - @, !.cbCount = 0,
            !.rampStarted = FALSE, !.seedRuns = Min(@ + 1, 2)]

\* One frame of withTiming(end, {duration, easing: Easing.linear}).
AdvanceRamp(c, duration, end) ==
  IF c.rampActive
  THEN LET e == Min(c.rampElapsed + Quantum, duration)
       IN [c EXCEPT !.rampElapsed = e, !.animationTime = (end * e) \div duration,
                    !.rampActive = e < duration]
  ELSE c

(***************************************************************************)
(* DustSnapGL                                                              *)
(***************************************************************************)
GLCompletionDelay == DURATION_MS + COMPLETE_MARGIN_MS

\* the guard without its image conjunct
GLTriggerGuardNoImage(c, p) == p.isSnapped /\ shaderEffect /\ p.imageLayout.width > 0

\* the guard of the trigger useEffect
GLTriggerGuard(c, p) ==
  p.isSnapped /\ c.image # NoImage /\ shaderEffect /\ p.imageLayout.width > 0

\* the cleanup the trigger useEffect returns
GLTriggerCleanup(c) == [c EXCEPT !.timers = ClearTimeout(@)]

\* the body of the trigger useEffect
GLTriggerEffect(c, p) ==
  IF GLTriggerGuard(c, p)
  THEN StartRamp(ArmCompletion(c, GLCompletionDelay))
  ELSE IF ~p.isSnapped
       THEN [c EXCEPT !.isAnimating = FALSE, !.animationTime = 0,
                      !.rampActive = FALSE, !.rampElapsed = 0]
       ELSE c

\* the loadImage useEffect: starts the load of imageUri
GLLoadEffect(c, p) == [c EXCEPT !.loading = p.imageUri]

\* the reseed useEffect
GLSeedEffect(c, p, s) ==
  IF p.isSnapped THEN [c EXCEPT !.seedValue = s, !.seedRuns = 0] ELSE c

GLMount(c, p, s) ==
  LET c0 == [ResetState(c) EXCEPT !.mounted = TRUE, !.seedValue = s]
  IN GLTriggerEffect(GLLoadEffect(GLSeedEffect(c0, p, s), p), p)

GLUnmount(c) == ResetState(GLTriggerCleanup(c))

\* A re-render of a mounted instance: every effect whose dependency changed
\* runs its cleanup and then its body.  old is the state of the previous
\* render, c the state after the update that caused this one.
GLUpdate(old, c, pOld, pNew, s) ==
  LET c1 == IF pOld.isSnapped # pNew.isSnapped THEN GLSeedEffect(c, pNew, s) ELSE c
      c2 == IF pOld.imageUri # pNew.imageUri THEN GLLoadEffect(c1, pNew) ELSE c1
      changed == \/ pOld.isSnapped # pNew.isSnapped
                 \/ old.image # c.image
                 \/ pOld.imageLayout.width # pNew.imageLayout.width
                 \/ pOld.onComplete # pNew.onComplete
  IN IF changed THEN GLTriggerEffect(GLTriggerCleanup(c2), pNew) ELSE c2

\* the render guard: the shader canvas is on screen
GLRendered(c, p) ==
  c.mounted /\ p.isSnapped /\ c.isAnimating /\ c.image # NoImage /\ shaderEffect

(***************************************************************************)
(* BlowAwayImage                                                           *)
(***************************************************************************)
BlowCompletionDelay == BLOW_DURATION_MS + COMPLETE_MARGIN_MS

\* the static <View ref={containerRef}> is rendered
ContainerRef(c) == c.mounted /\ c.image # NoImage /\ shaderEffect /\ ~c.isAnimating

BlowTriggerGuard(c, p) == p.isSnapped /\ c.image # NoImage /\ shaderEffect

BlowTriggerCleanup(c) == [c EXCEPT !.timers = ClearTimeout(@)]

\* the body of the trigger useEffect: containerRef.current?.measureInWindow(cb)
\* and the setTimeout
BlowTriggerEffect(c, p) ==
  IF BlowTriggerGuard(c, p)
  THEN LET c1 == IF ContainerRef(c)
                 THEN [c EXCEPT !.measuring = Min(@ + 1, MaxPending)]
                 ELSE c
       IN ArmCompletion(c1, BlowCompletionDelay)
  ELSE c

BlowLoadEffect(c, p) == [c EXCEPT !.loading = p.imageUri]

BlowMount(c, p, s) ==
  LET c0 == [ResetState(c) EXCEPT !.mounted = TRUE, !.seedValue = s]
  IN BlowTriggerEffect(BlowLoadEffect(c0, p), p)

BlowUnmount(c) == ResetState(BlowTriggerCleanup(c))

BlowUpdate(old, c, pOld, pNew) ==
  LET c2 == IF pOld.imageUri # pNew.imageUri THEN BlowLoadEffect(c, pNew) ELSE c
      changed == \/ pOld.isSnapped # pNew.isSnapped
                 \/ old.image # c.image
                 \/ pOld.onComplete # pNew.onComplete
  IN IF changed THEN BlowTriggerEffect(BlowTriggerCleanup(c2), pNew) ELSE c2

BlowRendered(c) == c.mounted /\ c.image # NoImage /\ shaderEffect /\ c.isAnimating

(***************************************************************************)
(* Either component, by mode.                                              *)
(***************************************************************************)
IsGL == mode \in {"gl", "app"}

Update(old, c, pOld, pNew, s) ==
  IF IsGL THEN GLUpdate(old, c, pOld, pNew, s) ELSE BlowUpdate(old, c, pOld, pNew)

\* the value the time ramp ends at: duration / 1000 and 3.0, in thousandths
EndValue == IF IsGL THEN DURATION_MS ELSE BLOW_END_VALUE

Rendered == IF IsGL THEN GLRendered(comp, props) ELSE BlowRendered(comp)

\* setImage(loadedImage): a new image object
Loaded(c) == [c EXCEPT !.image = <<c.loading, 1 - c.image[2]>>, !.loading = 0]


(***************************************************************************)
(* DustSnapApp: the state of the screen that is not a prop of DustSnapGL.  *)
(* fakeImage, isSnapped and imageLayout are the props it hands down.       *)
(***************************************************************************)
fakeImage == props.imageUri
isSnapped == props.isSnapped
imageLayout == props.imageLayout

AppIdle ==
  [ imageUri |-> 0, imageAspectRatio |-> 1, pickerOpen |-> FALSE,
    awaitingMeasure |-> 0, snapTimers |-> <<>>, layoutMeasures |-> 0,
    fade |-> -1, deletePending |-> 0 ]

InitialProps ==
  [imageUri |-> 0, isSnapped |-> FALSE, imageLayout |-> ZeroLayout, onComplete |-> 1]

\* {fakeImage && isSnapped && (<DustSnapGL ... />)}
GLMountCondition(p) == p.imageUri # 0 /\ p.isSnapped

\* The re-render of the screen after a state update: DustSnapGL is mounted,
\* unmounted or updated with the new props.
AppCommit(c, pOld, pNew, s) ==
  IF ~c.mounted /\ GLMountCondition(pNew) THEN GLMount(c, pNew, s)
  ELSE IF c.mounted /\ ~GLMountCondition(pNew) THEN GLUnmount(c)
  ELSE IF c.mounted THEN GLUpdate(c, c, pOld, pNew, s)
  ELSE c

\* imageContainerRef.current: the image view is rendered
ImageContainerRef == app.imageUri # 0

RemoveAt(q, i) == [j \in 1..(Len(q) - 1) |-> IF j < i THEN q[j] ELSE q[j + 1]]

\* PressableScale onPress={selectImage}: the picker opens
SelectPress ==
  /\ mode = "app"
  /\ app.imageUri = 0
  /\ ~app.pickerOpen
  /\ app' = [app EXCEPT !.pickerOpen = TRUE]
  /\ UNCHANGED <<field, mode, props, comp>>

\* launchImageLibraryAsync resolves: u = 0 is result.canceled
SelectResult ==
  /\ mode = "app"
  /\ app.pickerOpen
  /\ \E u \in 0..MaxUri, s \in Seeds :
       IF u = 0
       THEN /\ app' = [app EXCEPT !.pickerOpen = FALSE]
            /\ UNCHANGED <<props, comp>>
       ELSE /\ app' = [app EXCEPT !.pickerOpen = FALSE, !.imageUri = u,
                                  !.imageAspectRatio = u,
                                  !.layoutMeasures =
                                     IF ImageContainerRef
                                     THEN Min(@ + 1, MaxMeasures) ELSE @]
            /\ props' = [props EXCEPT !.imageUri = u]
            /\ comp' = AppCommit(comp, props, props', s)
  /\ UNCHANGED <<field, mode>>

\* onLayout={() => measureImage()}
OnLayout ==
  /\ mode = "app"
  /\ ImageContainerRef
  /\ app.layoutMeasures < MaxMeasures
  /\ app' = [app EXCEPT !.layoutMeasures = @ + 1]
  /\ UNCHANGED <<field, mode, props, comp>>

\* the measureInWindow callback of measureImage: setImageLayout
MeasureResult ==
  /\ mode = "app"
  /\ app.layoutMeasures > 0
  /\ \E l \in MeasuredLayouts, s \in Seeds :
       /\ props' = [props EXCEPT !.imageLayout = l]
       /\ comp' = AppCommit(comp, props, props', s)
  /\ app' = [app EXCEPT !.layoutMeasures = @ - 1]
  /\ UNCHANGED <<field, mode>>

\* handleDelete up to `await measureImage()`
DeletePress ==
  /\ mode = "app"
  /\ app.imageUri # 0
  /\ ~(fakeImage = 0 \/ isSnapped)
  /\ app.awaitingMeasure + Len(app.snapTimers) < MaxPending
  /\ app' = IF ImageContainerRef
            THEN [app EXCEPT !.awaitingMeasure = @ + 1]
            ELSE [app EXCEPT !.snapTimers = Append(@, 0)]
  /\ UNCHANGED <<field, mode, props, comp>>

\* the measureInWindow callback a handleDelete awaits: setImageLayout,
\* resolve, and handleDelete goes on to its setTimeout(..., 16)
DeleteMeasured ==
  /\ mode = "app"
  /\ app.awaitingMeasure > 0
  /\ \E l \in MeasuredLayouts, s \in Seeds :
       /\ props' = [props EXCEPT !.imageLayout = l]
       /\ comp' = AppCommit(comp, props, props', s)
  /\ app' = [app EXCEPT !.awaitingMeasure = @ - 1, !.snapTimers = Append(@, 0)]
  /\ UNCHANGED <<field, mode>>

\* the setTimeout callback of handleDelete: setIsSnapped(true) and the
\* opacity fade
SnapTimerFires ==
  /\ mode = "app"
  /\ \E i \in 1..Len(app.snapTimers), s \in Seeds :
       /\ app.snapTimers[i] >= SNAP_DELAY_MS
       /\ app' = [app EXCEPT !.snapTimers = RemoveAt(@, i), !.fade = 0]
       /\ props' = [props EXCEPT !.isSnapped = TRUE]
       /\ comp' = AppCommit(comp, props, props', s)
  /\ UNCHANGED <<field, mode>>

\* the withTiming callback with finished = true: scheduleOnRN(deleteImage)
FadeFinished ==
  /\ mode = "app"
  /\ app.fade >= FADE_MS
  /\ app' = [app EXCEPT !.fade = -1, !.deletePending = Min(@ + 1, MaxPending)]
  /\ UNCHANGED <<field, mode, props, comp>>

\* deleteImage: setImageUri(null); imageOpacity.value = 1
DeleteImage ==
  /\ mode = "app"
  /\ app.deletePending > 0
  /\ app' = [app EXCEPT !.deletePending = @ - 1, !.imageUri = 0, !.fade = -1]
  /\ UNCHANGED <<field, mode, props, comp>>

\* handleAnimationComplete
HandleAnimationComplete(p) ==
  [p EXCEPT !.isSnapped = FALSE, !.imageLayout = ZeroLayout, !.imageUri = 0]

(***************************************************************************)
(* The parent of a DustSnapGL ("gl") or a BlowAwayImage ("blow"): it       *)
(* mounts and unmounts the component and changes its props.                *)
(***************************************************************************)
Standalone == mode \in {"gl", "blow"}

Mount(c, p, s) == IF IsGL THEN GLMount(c, p, s) ELSE BlowMount(c, p, s)

Unmount(c) == IF IsGL THEN GLUnmount(c) ELSE BlowUnmount(c)

Commit(pNew, s) ==
  /\ props' = pNew
  /\ comp' = IF comp.mounted THEN Update(comp, comp, props, pNew, s) ELSE comp
  /\ UNCHANGED <<field, mode, app>>

EnvMount ==
  /\ Standalone
  /\ ~comp.mounted
  /\ \E s \in Seeds : comp' = Mount(comp, props, s)
  /\ UNCHANGED <<field, mode, props, app>>

EnvUnmount ==
  /\ Standalone
  /\ comp.mounted
  /\ comp' = Unmount(comp)
  /\ UNCHANGED <<field, mode, props, app>>

\* isSnapped (DustSnapGL) / trigger (BlowAwayImage) is set or revoked
EnvSetTrigger ==
  /\ Standalone
  /\ \E s \in Seeds : Commit([props EXCEPT !.isSnapped = ~@], s)

\* the parent passes a new function as onAnimationComplete / onComplete
EnvSetOnComplete ==
  /\ Standalone
  /\ \E s \in Seeds : Commit([props EXCEPT !.onComplete = 3 - @], s)

EnvSetImageUri ==
  /\ Standalone
  /\ \E u \in Uris \ {props.imageUri}, s \in Seeds :
       Commit([props EXCEPT !.imageUri = u], s)

EnvSetLayout ==
  /\ mode = "gl"
  /\ \E l \in MeasuredLayouts \ {props.imageLayout}, s \in Seeds :
       Commit([props EXCEPT !.imageLayout = l], s)

(***************************************************************************)
(* Events of the component itself.                                         *)
(***************************************************************************)
\* Skia.Data.fromURI resolves and the image decodes: setImage(loadedImage)
LoadResolve ==
  /\ comp.mounted
  /\ comp.loading # 0
  /\ \E s \in Seeds : comp' = Update(comp, Loaded(comp), props, props, s)
  /\ UNCHANGED <<field, mode, props, app>>

\* the load throws, or yields no data or no image
LoadFail ==
  /\ comp.mounted
  /\ comp.loading # 0
  /\ comp' = [comp EXCEPT !.loading = 0]
  /\ UNCHANGED <<field, mode, props, app>>

\* measurePosition (onLayout of the static view) and its callback
BlowOnLayout ==
  /\ mode = "blow"
  /\ ContainerRef(comp)
  /\ \E o \in Offsets \ {comp.imageOffset} : comp' = [comp EXCEPT !.imageOffset = o]
  /\ UNCHANGED <<field, mode, props, app>>

\* the measureInWindow callback of the trigger useEffect
BlowMeasured ==
  /\ mode = "blow"
  /\ comp.mounted
  /\ comp.measuring > 0
  /\ \E o \in Offsets :
       comp' = StartRamp([comp EXCEPT !.measuring = @ - 1, !.imageOffset = o])
  /\ UNCHANGED <<field, mode, props, app>>

Record(c, t) == [c EXCEPT !.timers = @ \ {t}, !.cbCount = Min(@ + 1, 2)]

\* the setTimeout callback: onAnimationComplete?.() / onComplete?.().  In the
\* app the callback is handleAnimationComplete; a standalone parent either
\* revokes the trigger in its callback or leaves it set.
CompletionFires ==
  /\ \E t \in comp.timers, s \in Seeds, revoke \in BOOLEAN :
       /\ t.elapsed >= t.delay
       /\ IF mode = "app"
          THEN /\ revoke
               /\ props' = HandleAnimationComplete(props)
               /\ app' = [app EXCEPT !.imageAspectRatio = 1]
               /\ comp' = AppCommit(Record(comp, t), props, props', s)
          ELSE /\ props' = [props EXCEPT !.isSnapped = IF revoke THEN FALSE ELSE @]
               /\ comp' = Update(comp, Record(comp, t), props, props', s)
               /\ UNCHANGED app
  /\ UNCHANGED <<field, mode>>

AdvanceSnap(q) == [i \in 1..Len(q) |-> Min(q[i] + Quantum, SNAP_DELAY_MS + Quantum)]

\* time passes: Quantum ms
Tick ==
  /\ comp' = LET c == [comp EXCEPT !.timers = AdvanceTimers(@)]
             IN AdvanceRamp(c, IF IsGL THEN DURATION_MS ELSE BLOW_DURATION_MS, EndValue)
  /\ app' = [app EXCEPT !.snapTimers = AdvanceSnap(@),
                        !.fade = IF @ < 0 THEN @ ELSE Min(@ + Quantum, FADE_MS + Quantum)]
  /\ UNCHANGED <<field, mode, props>>

(***************************************************************************)
(* The field functions: `main` of DUST_SHADER (cylinder.tsx) and of        *)
(* DUST_SNAP_SHADER (part_000).  Reals are fixed-point numbers in          *)
(* hundredths: 1.0 is Unit, a time of 1 s is 100, a pixel is 100.          *)
(***************************************************************************)
Unit == 10 * 10

Mul(a, b) == (a * b) \div Unit

Div(a, b) == (a * Unit) \div b

Abs(a) == IF a < 0 THEN -a ELSE a

\* fract
Fract(x) == x % Unit

\* sin and cos of an angle in hundredths of a radian (Bhaskara's rational
\* approximation on each half period)
Sin(x) ==
  LET pi == 314
      r == x % (2 * pi)
      half(y) == (16 * Unit * y * (pi - y)) \div (5 * pi * pi - 4 * y * (pi - y))
  IN IF r <= pi THEN half(r) ELSE -half(r - pi)

Cos(x) == Sin(x + 157)

\* sqrt on [0, 1]
Sqrt(x) == CHOOSE r \in 0..Unit : r * r <= x * Unit /\ (r + 1) * (r + 1) > x * Unit

\* ANIMATION_CONFIG, in hundredths
TIME_SCALE == 2200
MAX_TIME == 25000
WIND_SPEED == 1200
VERTICAL_SPREAD == 6000
TURBULENCE == 3500
BURST_STRENGTH == 4500
FLOAT_AMPLITUDE == 2500
REVERSE_WIND_MULTIPLIER == 600
LIFETIME_MIN == 18000
LIFETIME_RANGE == 10000
FADE_START == 92
DRIFT_X == 350
DRIFT_Y == 250
SEARCH_RAD == 4
MAX_SEARCH_X == 8
MAX_SEARCH_Y == 5

GL == "DUST_SHADER"
Snap == "DUST_SNAP_SHADER"

\* the cells of an image of imageSize cut into particleSize squares
Cells(f) ==
  (0..((f.imageSize[1] - 1) \div f.particleSize))
    \X (0..((f.imageSize[2] - 1) \div f.particleSize))

\* hash(cellId + seed): the table of the run's seed
hash(f, cellId) == f.hashTable[cellId]

rnd1(f, cellId) == hash(f, cellId)

rnd2(f, cellId) == Fract(Mul(hash(f, cellId), 724))

rnd3(f, cellId) == Fract(Mul(hash(f, cellId), 1376))

\* float t = time * timeScale  /  float t = time * 60.0
TUnscaled(f) == f.time

T(f) == IF f.shader = GL THEN Mul(f.time, TIME_SCALE) ELSE Mul(f.time, 6000)

maxTime(f) == IF f.shader = GL THEN MAX_TIME ELSE 18000

\* <<reverseWindX, reverseWindY>>
reverseWind(f) ==
  LET t == T(f)
  IN IF f.shader = GL
     THEN <<Mul(REVERSE_WIND_MULTIPLIER, t), 0>>
     ELSE <<Mul(1200, t) + Mul(Mul(t, t), 2), Mul(150, t)>>

halfSize(f) == Mul(f.particleSize, 50)

cellCenter(f, cellId) ==
  <<cellId[1] * f.particleSize + halfSize(f), cellId[2] * f.particleSize + halfSize(f)>>

maxLife(f, cellId) ==
  IF f.shader = GL
  THEN LIFETIME_MIN + Mul(rnd1(f, cellId), LIFETIME_RANGE)
  ELSE 6000 + Mul(hash(f, cellId), 6000)

lifeRatioWrapped(f, cellId) == Fract(Div(T(f), maxLife(f, cellId)))

lifeRatio(f, cellId) == Div(T(f), maxLife(f, cellId))

\* if (lifeRatio >= 1.0) continue;
Skipped(f, cellId) == lifeRatio(f, cellId) >= Unit

startEase(f, cellId) == Min(Mul(lifeRatio(f, cellId), 1000), Unit)

\* <<windX, windY>>
wind(f, cellId) ==
  LET t == T(f)
  IN IF f.shader = GL
     THEN LET verticalDir == Mul(rnd2(f, cellId), 200) - Unit
          IN << -Mul(Mul(WIND_SPEED, t), 70 + Mul(rnd1(f, cellId), 60)),
                Mul(Mul(Mul(verticalDir, VERTICAL_SPREAD), t),
                    50 + Mul(rnd3(f, cellId), 50)) >>
     ELSE LET rndSeed == hash(f, cellId)
              windSpeed == 1000 + Mul(rndSeed, 400)
              wave == Mul(Sin(Mul(t, 12) + Mul(rndSeed, 1500)), 600)
              lift == Mul(-Unit + Mul(rndSeed - 50, 250), t)
          IN << -Mul(windSpeed, t) - Mul(Mul(t, t), 2), lift + wave >>

\* <<turbX, turbY>>
turb(f, cellId) ==
  LET turbPhase == Mul(T(f), 7) + Mul(rnd3(f, cellId), 2000)
  IN << Mul(Mul(Sin(turbPhase), TURBULENCE), rnd1(f, cellId)),
        Mul(Mul(Cos(turbPhase), TURBULENCE), rnd2(f, cellId)) >>

\* <<burstX, burstY>>
burst(f, cellId) ==
  LET burstAngle == Mul(rnd3(f, cellId), 628)
      burstDecay == Div(Unit, Unit + Mul(lifeRatio(f, cellId), 500))
  IN << Mul(Mul(Cos(burstAngle), BURST_STRENGTH), burstDecay),
        Mul(Mul(Sin(burstAngle), BURST_STRENGTH), burstDecay) >>

\* <<floatX, floatY>>
float(f, cellId) ==
  LET floatPhase == Mul(T(f), 5) + Mul(rnd1(f, cellId), 1000)
  IN << Mul(Mul(Sin(floatPhase), FLOAT_AMPLITUDE), 50),
        Mul(Cos(Mul(floatPhase, 70)), FLOAT_AMPLITUDE) >>

\* <<continuousDriftX, continuousDriftY>>
continuousDrift(f, cellId) ==
  LET driftDirX == Mul(rnd1(f, cellId) - 50, 200)
      driftDirY == Mul(rnd2(f, cellId) - 50, 200)
      tSq == Mul(Mul(T(f), T(f)), 1)
  IN << Mul(Mul(driftDirX, DRIFT_X), tSq), Mul(Mul(driftDirY, DRIFT_Y), tSq) >>

\* the displacement of a cell's particle: `movement` in DUST_SHADER,
\* float2(windX, windY) in DUST_SNAP_SHADER
movement(f, cellId) ==
  IF f.shader = GL
  THEN LET w == wind(f, cellId)
           u == turb(f, cellId)
           b == burst(f, cellId)
           l == float(f, cellId)
           d == continuousDrift(f, cellId)
           e == startEase(f, cellId)
       IN << Mul(w[1] + u[1] + b[1] + l[1] + d[1], e),
             Mul(w[2] + u[2] + b[2] + l[2] + d[2], e) >>
  ELSE wind(f, cellId)

particlePos(f, cellId) ==
  LET c == cellCenter(f, cellId)
      m == movement(f, cellId)
  IN << f.imageOffset[1] + c[1] + m[1], f.imageOffset[2] + c[2] + m[2] >>

\* the pixel lies in the cell's particle (a square, or a disc when isCircle)
inside(f, cellId, fragCoord) ==
  LET p == particlePos(f, cellId)
      dx == fragCoord[1] - p[1]
      dy == fragCoord[2] - p[2]
      h == halfSize(f)
  IN /\ Abs(dx) <= h
     /\ Abs(dy) <= h
     /\ (f.shader = GL /\ f.isCircle) => dx * dx + dy * dy <= h * h

fadeStart(shader) == IF shader = GL THEN FADE_START ELSE 30

\* the fade factor of a particle at life ratio lr
alphaRising(shader, lr) ==
  IF shader = GL
  THEN IF lr > FADE_START THEN Div(lr - FADE_START, Unit - FADE_START) ELSE Unit
  ELSE IF lr > 30 THEN Div(lr - 30, 70) ELSE Unit

alpha(shader, lr) ==
  IF shader = GL
  THEN LET a == IF lr > FADE_START
                THEN Unit - Div(lr - FADE_START, Unit - FADE_START)
                ELSE Unit
       IN Mul(a, a)
  ELSE IF lr > 30
       THEN LET x == Unit - Div(lr - 30, 70) IN Mul(x, Sqrt(x))
       ELSE Unit

\* the loop bounds of the candidate window
SearchX(f) == IF f.shader = GL THEN SEARCH_RAD ELSE MAX_SEARCH_X

SearchY(f) == IF f.shader = GL THEN SEARCH_RAD ELSE MAX_SEARCH_Y

\* the k-th <<i, j>> of `for i ... for j ...`
Candidate(f, k) ==
  << ((k - 1) \div (2 * SearchY(f) + 1)) - SearchX(f),
     ((k - 1) % (2 * SearchY(f) + 1)) - SearchY(f) >>

NumCandidates(f) == (2 * SearchX(f) + 1) * (2 * SearchY(f) + 1)

\* screenCoord + float2(reverseWindX, reverseWindY) - imageOffset
baseImgPos(f, fragCoord) ==
  LET r == reverseWind(f)
  IN << fragCoord[1] + r[1] - f.imageOffset[1], fragCoord[2] + r[2] - f.imageOffset[2] >>

\* baseImgPos + float2(i, j) * particleSize
imgLocalPos(f, base, ij) ==
  << base[1] + ij[1] * f.particleSize, base[2] + ij[2] * f.particleSize >>

\* the bounds test with its upper limits included
InBoundsClosed(f, p) ==
  ~(p[1] < 0 \/ p[1] > f.imageSize[1] \/ p[2] < 0 \/ p[2] > f.imageSize[2])

\* the bounds test of the loop body: `continue` when it fails
InBounds(f, p) ==
  ~(p[1] < 0 \/ p[1] >= f.imageSize[1] \/ p[2] < 0 \/ p[2] >= f.imageSize[2])

\* floor(imgLocalPos / particleSize)
cellId(f, p) == <<p[1] \div f.particleSize, p[2] \div f.particleSize>>

Transparent == [kind |-> "transparent", cell |-> <<-1, -1>>, a |-> 0]

NotEvaluated == [kind |-> "none", cell |-> <<-1, -1>>, a |-> 0]

\* the body of the loop returns a colour for the candidate at p
Returns(f, fragCoord, p) ==
  /\ InBounds(f, p)
  /\ LET c == cellId(f, p)
     IN /\ ~Skipped(f, c)
        /\ inside(f, c, fragCoord)
        /\ alpha(f.shader, lifeRatio(f, c)) > 1
        /\ f.shader = GL => f.imageAlpha[c] > 10

\* half4 main(float2 fragCoord)
main(f, fragCoord) ==
  IF T(f) > maxTime(f)
  THEN Transparent
  ELSE LET base == baseImgPos(f, fragCoord)
           hits == {k \in 1..NumCandidates(f) :
                      Returns(f, fragCoord, imgLocalPos(f, base, Candidate(f, k)))}
       IN IF hits = {}
          THEN Transparent
          ELSE LET k == CHOOSE n \in hits : \A m \in hits : n <= m
                   c == cellId(f, imgLocalPos(f, base, Candidate(f, k)))
               IN [kind |-> "color", cell |-> c,
                   a |-> Mul(f.imageAlpha[c], alpha(f.shader, lifeRatio(f, c)))]

(***************************************************************************)
(* A frame of the effect: the uniforms of one draw, the image, and the     *)
(* colour of the pixel evaluated last.  expired holds the cells whose      *)
(* lifeRatio was >= 1 at an earlier time of the clock.                     *)
(***************************************************************************)
FieldOff == [shader |-> "none"]

\* values of hash: in DUST_SHADER lifetimes of 219 and 269 frames, in
\* DUST_SNAP_SHADER of 60 and 83.4 frames
HashVals(shader) == IF shader = GL THEN {39, 89} ELSE {0, 39}

\* values of the time uniform, in hundredths of a second
FieldTimes(shader) ==
  IF shader = GL THEN {0, 10, 50, 100, 1000, 1100, 1150}
  ELSE {0, 10, 50, 100, 120, 200, 300, 310}

FieldOffset == <<120000, 40000>>

\* the value of the time uniform at the end of the driver's ramp, in
\* hundredths of a second: duration / 1000 in DustSnapGL, 3.0 in BlowAwayImage
RampEnd(shader) == IF shader = GL THEN DURATION_MS \div 10 ELSE BLOW_END_VALUE \div 10

\* two by two cells: pieceSize 3 in DustSnapApp, particleSize 4 by default;
\* and the placements of width 0 or height 0
Uniforms ==
  { [shader |-> GL, particleSize |-> 300, imageSize |-> <<600, 600>>, isCircle |-> c]
      : c \in BOOLEAN }
  \cup { [shader |-> Snap, particleSize |-> 400, imageSize |-> <<800, 800>>,
          isCircle |-> FALSE] }
  \cup { [shader |-> GL, particleSize |-> 300, imageSize |-> <<0, 0>>, isCircle |-> TRUE],
         [shader |-> GL, particleSize |-> 300, imageSize |-> <<0, 600>>, isCircle |-> FALSE],
         [shader |-> Snap, particleSize |-> 400, imageSize |-> <<800, 0>>,
          isCircle |-> FALSE] }

\* the source image: alpha of the colour at each cell centre
Images(u) == { [c \in Cells(u) |-> IF c \in holes THEN 0 ELSE Unit]
                 : holes \in {{}, {<<0, 0>>}} }

Frame(u, h, img) ==
  [shader |-> u.shader, particleSize |-> u.particleSize, imageSize |-> u.imageSize,
   isCircle |-> u.isCircle, imageOffset |-> FieldOffset, time |-> 0,
   hashTable |-> h, imageAlpha |-> img, expired |-> {}, out |-> NotEvaluated]

Frames ==
  UNION { {Frame(u, h, img) : h \in [Cells(u) -> HashVals(u.shader)], img \in Images(u)}
            : u \in Uniforms }

\* The pixels evaluated: the cell centres of the image and of the window
\* around it, a pixel near a cell corner, a pixel on the edge between two
\* cells and a pixel far from the image, each moved by the reverse wind.
Samples(f) ==
  { <<halfSize(f) + kx * f.particleSize, halfSize(f) + ky * f.particleSize>>
      : kx \in (-SearchX(f))..(SearchX(f) + 1), ky \in (-SearchY(f))..(SearchY(f) + 1) }
  \cup { <<20, 20>>, <<f.particleSize, halfSize(f)>>, <<-100000, 0>> }

fragCoord(f, q) ==
  LET r == reverseWind(f)
  IN IF T(f) > maxTime(f)
     THEN <<f.imageOffset[1] + q[1], f.imageOffset[2] + q[2]>>
     ELSE <<f.imageOffset[1] + q[1] - r[1], f.imageOffset[2] + q[2] - r[2]>>

\* the canvas draws a pixel of the current frame
Render ==
  /\ mode = "field"
  /\ field.out = NotEvaluated
  /\ \E q \in Samples(field) :
       field' = [field EXCEPT !.out = main(field, fragCoord(field, q))]
  /\ UNCHANGED <<mode, props, comp, app>>

\* the time uniform moves on to a later value
AdvanceTime ==
  /\ mode = "field"
  /\ \E t \in FieldTimes(field.shader) :
       /\ t > field.time
       /\ field' = [field EXCEPT
                      !.time = t,
                      !.expired = @ \cup {c \in Cells(field) : Skipped(field, c)},
                      !.out = NotEvaluated]
  /\ UNCHANGED <<mode, props, comp, app>>

NextField == Render \/ AdvanceTime

InitField ==
  /\ mode = "field"
  /\ props = [imageUri |-> 0, isSnapped |-> FALSE,
              imageLayout |-> [x |-> 0, y |-> 0, width |-> 0, height |-> 0],
              onComplete |-> 1]
  /\ comp = Unmounted
  /\ app = AppIdle
  /\ field \in Frames

SpecField == InitField /\ [][NextField]_vars

StandaloneProps ==
  [InitialProps EXCEPT !.imageUri = 1,
                       !.imageLayout = [x |-> 8, y |-> 16, width |-> 6, height |-> 6]]

InitMode(m) ==
  /\ mode = m
  /\ props = IF m = "app" THEN InitialProps ELSE StandaloneProps
  /\ comp = Unmounted
  /\ app = AppIdle
  /\ field = FieldOff

Component == LoadResolve \/ LoadFail \/ CompletionFires \/ Tick

Parent == EnvMount \/ EnvUnmount \/ EnvSetTrigger \/ EnvSetOnComplete \/ EnvSetImageUri

NextGL == Parent \/ EnvSetLayout \/ Component

NextBlow == Parent \/ BlowOnLayout \/ BlowMeasured \/ Component

NextApp ==
  \/ SelectPress \/ SelectResult \/ OnLayout \/ MeasureResult
  \/ DeletePress \/ DeleteMeasured \/ SnapTimerFires \/ FadeFinished \/ DeleteImage
  \/ Component

Next == NextGL \/ NextBlow \/ NextApp

SpecGL == InitMode("gl") /\ [][NextGL]_vars

SpecBlow == InitMode("blow") /\ [][NextBlow]_vars

SpecApp == InitMode("app") /\ [][NextApp]_vars

Spec == (\E m \in {"gl", "blow", "app"} : InitMode(m)) /\ [][Next]_vars

\* The JS event loop runs a due timer, and time passes.
Fairness == WF_vars(Tick) /\ WF_vars(CompletionFires)

FairGL == SpecGL /\ Fairness

FairBlow == SpecBlow /\ Fairness

FairApp == SpecApp /\ Fairness

\* In the app every queued callback is delivered: the 16 ms timer of
\* handleDelete, the measureInWindow callbacks, the end of the opacity fade,
\* deleteImage, and the load of the image settles (it resolves or it fails).
AppFairness ==
  /\ Fairness
  /\ WF_vars(SnapTimerFires)
  /\ WF_vars(MeasureResult)
  /\ WF_vars(DeleteMeasured)
  /\ WF_vars(FadeFinished)
  /\ WF_vars(DeleteImage)
  /\ WF_vars(LoadResolve \/ LoadFail)

FairAppAll == SpecApp /\ AppFairness

(***************************************************************************)
(* Properties of the driver                                                *)
(***************************************************************************)
\* a completion callback is invoked in this step
CallbackStep == comp'.cbCount = comp.cbCount + 1

\* the timers this step takes off the queue
Removed == comp.timers \ comp'.timers

Duration == IF IsGL THEN DURATION_MS ELSE BLOW_DURATION_MS

\* a run is in progress: the trigger is set and the effect is on screen
Running == comp.mounted /\ props.isSnapped /\ Rendered

\* C1: a run that is started and not cancelled gets its completion callback
\* exactly once: never twice for one arming of the timer, never before
\* duration + 100 ms have passed since the run was triggered, and as long as
\* the run is on screen with no callback yet, its completion timer is pending.
C1_CallbackExactlyOnce ==
  /\ [](comp.cbCount <= 1)
  /\ [][CallbackStep =>
          \A t \in Removed : t.elapsed >= Duration + COMPLETE_MARGIN_MS]_vars
  /\ []((Running /\ comp.cbCount = 0) => comp.timers # {})

\* C2: when the trigger is revoked or the component unmounts while a run is
\* on screen and its timer has not fired, time is reset to 0, the effect is
\* no longer rendered and no completion timer of the run is left.
C2_RevokeStopsRun ==
  [][(Running /\ comp.timers # {} /\ (~props'.isSnapped \/ ~comp'.mounted))
       => (comp'.animationTime = 0 /\ ~Rendered' /\ comp'.timers = {})]_vars

\* C3: the completion callback is only invoked for a run whose time ramp was
\* started and has reached its end value.
C3_CallbackAfterRamp ==
  [][CallbackStep =>
       (comp.rampStarted /\ ~comp.rampActive /\ comp.animationTime = EndValue)]_vars

\* C4: isAnimating, an active time ramp or a rendered shader canvas imply that
\* the image is loaded.
C4_RunningNeedsImage ==
  (comp.isAnimating \/ comp.rampActive \/ Rendered) => comp.image # NoImage

\* a run is on screen, its ramp is going, and its image is loaded
C4_Witness == Rendered /\ comp.rampActive /\ comp.image # NoImage

\* C5: when the completion callback is invoked and the parent takes the
\* trigger back, the driver is idle again: nothing is rendered and
\* isAnimating is false.
C5_CompletionReturnsToIdle ==
  [][(CallbackStep /\ ~props'.isSnapped) => (~Rendered' /\ ~comp'.isAnimating)]_vars

\* C6: while a run is on screen with its timer pending, no step that leaves it
\* on screen re-arms the completion timer or moves time backwards.
C6_SingleRun ==
  [][(Running /\ comp.timers # {} /\ Running') =>
       (comp'.gen = comp.gen /\ comp'.animationTime >= comp.animationTime)]_vars

(***************************************************************************)
(* Properties of the field functions                                       *)
(***************************************************************************)
\* the time uniform is past the global cutoff: time * timeScale > maxTime
PastCutoff ==
  IF field.shader = GL
  THEN Mul(field.time, TIME_SCALE) > MAX_TIME
  ELSE Mul(field.time, 6000) > 18000

\* C7: whenever time * timeScale > maxTime the evaluated pixel is fully
\* transparent, whatever the lifetimes of the cells.
C7_GlobalCutoff ==
  (mode = "field" /\ field.out # NotEvaluated /\ PastCutoff) => field.out = Transparent

\* a pixel was evaluated past the cutoff while some cell was still alive
C7_Witness ==
  /\ mode = "field"
  /\ PastCutoff
  /\ field.out = Transparent
  /\ \E c \in Cells(field) : ~Skipped(field, c)

\* C8: lifeRatio of every cell never decreases as time advances, a cell whose
\* lifeRatio was >= 1 at an earlier time is skipped now, and the evaluated
\* pixel never takes its colour from such a cell.
C8_MonotonicExpiry ==
  /\ [][mode = "field" =>
          \A c \in Cells(field) : lifeRatio(field, c)' >= lifeRatio(field, c)]_vars
  /\ [](mode = "field" => \A c \in field.expired : Skipped(field, c))
  /\ []((mode = "field" /\ field.out.kind = "color") => field.out.cell \notin field.expired)

\* a pixel takes a colour while another cell has already expired
C8_Witness == mode = "field" /\ field.expired # {} /\ field.out.kind = "color"

\* the sampled pixels that lie inside the image
InsideSamples(f) == {q \in Samples(f) : InBounds(f, q)}

\* C9: at time 0 every cell's displacement is 0 and every pixel inside the
\* image lies in the particle of its own rest cell.
C9_EarlyTimeIdentity ==
  (mode = "field" /\ field.time = 0) =>
     /\ \A c \in Cells(field) : movement(field, c) = <<0, 0>>
     /\ \A q \in InsideSamples(field) :
          inside(field, cellId(field, q), fragCoord(field, q))

\* C10: the fade factor is within [0, 1], is 1 up to and at fadeStart, is 0 at
\* lifeRatio 1 and never increases with lifeRatio.
C10_FadeBounds ==
  mode = "field" =>
    LET sh == field.shader
    IN /\ alpha(sh, Unit) = 0
       /\ \A lr \in 0..Unit :
            LET a == alpha(sh, lr)
            IN /\ a \in 0..Unit
               /\ lr <= fadeStart(sh) => a = Unit
               /\ lr < Unit => alpha(sh, lr + 1) <= a

\* a particle past fadeStart is on screen, partly faded
C10_Witness ==
  /\ mode = "field"
  /\ field.out.kind = "color"
  /\ lifeRatio(field, field.out.cell) > fadeStart(field.shader)
  /\ field.out.a > 0
  /\ field.out.a < Unit

\* C11: a trigger that arms a run uses a seed drawn for that run (no seed
\* serves the runs of two triggers of one instance), time is 0 when an
\* instance goes from not running to running, and the seed does not change
\* while one run goes on.
C11_FreshSeedPerRun ==
  /\ [][(~props.isSnapped /\ props'.isSnapped /\ comp'.mounted
           /\ comp'.gen # comp.gen) => comp'.seedRuns <= 1]_vars
  /\ [][(~Running /\ Running') => comp'.animationTime = 0]_vars
  /\ [][(Running /\ Running' /\ comp'.gen = comp.gen)
          => comp'.seedValue = comp.seedValue]_vars

\* C12: at every pixel the output is the one of the first candidate, in the
\* order of the loops, that covers the pixel, is not expired and whose source
\* colour is opaque enough (alpha above 0.1); its alpha is 0 when there is no
\* such candidate.
C12_FirstMatchWins ==
  (mode = "field" /\ field.out = NotEvaluated) =>
    \A q \in Samples(field) :
      LET fc == fragCoord(field, q)
          base == baseImgPos(field, fc)
          pos(k) == imgLocalPos(field, base, Candidate(field, k))
          matches == {k \in 1..NumCandidates(field) :
                        /\ T(field) <= maxTime(field)
                        /\ Returns(field, fc, pos(k))
                        /\ field.imageAlpha[cellId(field, pos(k))] > 10}
          out == main(field, fc)
      IN IF matches = {}
         THEN out.a = 0
         ELSE LET k == CHOOSE n \in matches : \A m \in matches : n <= m
              IN out.kind = "color" /\ out.cell = cellId(field, pos(k))

\* C13: the bounds test passes only candidates whose image-local position is
\* in [0, imageSize.x) x [0, imageSize.y), a candidate outside is never
\* returned, a returned colour is the one of a cell of the image, and with a
\* placement of width 0 or height 0 every evaluated pixel is transparent.
\* (The sampled pixels follow the reverse estimate, so their candidate
\* positions are the same at every time: the first conjunct reads them once.)
C13_OutOfBoundsRejected ==
  mode = "field" =>
    /\ (field.time = 0 /\ field.out = NotEvaluated) =>
          \A q \in Samples(field) :
            LET fc == fragCoord(field, q)
                base == baseImgPos(field, fc)
            IN \A k \in 1..NumCandidates(field) :
                 LET p == imgLocalPos(field, base, Candidate(field, k))
                     within == /\ 0 <= p[1] /\ p[1] < field.imageSize[1]
                               /\ 0 <= p[2] /\ p[2] < field.imageSize[2]
                 IN /\ InBounds(field, p) => within
                    /\ ~within => ~Returns(field, fc, p)
    /\ field.out.kind = "color" => field.out.cell \in Cells(field)
    /\ (field.out # NotEvaluated
          /\ (field.imageSize[1] = 0 \/ field.imageSize[2] = 0))
         => field.out = Transparent

C13_Witness ==
  /\ mode = "field"
  /\ field.imageSize[1] = 0
  /\ field.time > 0
  /\ field.out = Transparent

\* C14: in the app, whenever isSnapped is true it is false again later.
C14_SnapEventuallyCleared == props.isSnapped ~> ~props.isSnapped

\* C15: in the app, whenever an image is displayed (imageUri is set, and no
\* opacity fade or deleteImage is about to clear it) the source image of the
\* effect (fakeImage) is set too.
C15_DisplayedImageHasSource ==
  (mode = "app" /\ app.imageUri # 0 /\ app.fade = -1 /\ app.deletePending = 0)
    => fakeImage # 0

\* C16: when the time uniform has the value the driver's ramp ends at, the
\* global cutoff applies or every cell has expired, and no pixel evaluated at
\* that time shows a colour.
C16_TransparentAtRampEnd ==
  (mode = "field" /\ field.time = RampEnd(field.shader)) =>
    /\ PastCutoff \/ \A c \in Cells(field) : Skipped(field, c)
    /\ field.out.kind # "color"
====
